---- MODULE Spec2Model ----
(***************************************************************************)
(* WeighJS: the recursive value-size estimator (Profiler and its shape     *)
(* strategies, src/src/weigh/weigh.ts), the size unit table (eMemorySize)  *)
(* and the strategy interface.                                             *)
(*                                                                         *)
(* A run is a caller building a value graph (objects, arrays, maps, sets,  *)
(* functions, regular expressions, buffers), typing a string, registering  *)
(* strategies, and calling sizeOf / computeSize / computeDetailedSize on   *)
(* one Profiler instance.  Every call is one action: the recursion of the  *)
(* code is a RECURSIVE operator that threads the visitation set.           *)
(***************************************************************************)
EXTENDS Integers, Sequences, FiniteSets, TLC

VARIABLES
    heap,        \* the caller's composite values, by reference identity (1..Len(heap))
    text,        \* the primitive string the caller is typing
    strategies,  \* Profiler.strategies
    visited,     \* Profiler.visited
    call         \* the last call made on the instance and what it returned

vars == <<heap, text, strategies, visited, call>>

(***************************************************************************)
(* Bounds of the model.                                                    *)
(***************************************************************************)
\* size of the value graph the caller builds: its composites plus the attachments
\* (property, element, entry, prototype) made to them
MaxSize == 4
\* the same, where the caller also calls computeSize directly
MaxCallSize == 3
\* length of the string the caller types
MaxLen == 6
\* how many strategies the caller registers with addStrategy
MaxAdded == 2

(***************************************************************************)
(* Strings are sequences of one-character strings, so that length, prefix  *)
(* tests and concatenation are computed.                                   *)
(***************************************************************************)
Alphabet == {"h", "t", "p", "s", ":"}

Digit(d) == CASE d = 0 -> "0" [] d = 1 -> "1" [] d = 2 -> "2" [] d = 3 -> "3"
              [] d = 4 -> "4" [] d = 5 -> "5" [] d = 6 -> "6" [] d = 7 -> "7"
              [] d = 8 -> "8" [] d = 9 -> "9"

\* String(n) of a non-negative integer below 100
NumberToString(n) == IF n < 10 THEN <<Digit(n)>> ELSE <<Digit(n \div 10), Digit(n % 10)>>

\* /^https?:/.test(s)
TestHttp(s) ==
    /\ Len(s) >= 5
    /\ SubSeq(s, 1, 4) = <<"h", "t", "t", "p">>
    /\ \/ s[5] = ":"
       \/ Len(s) >= 6 /\ s[5] = "s" /\ s[6] = ":"

(***************************************************************************)
(* The size unit table.  Only these members are declared.                  *)
(***************************************************************************)
eMemorySize ==
    ("BOOLEAN" :> 4) @@ ("NUMBER" :> 8) @@ ("BIGINT" :> 8) @@ ("STRING_CHAR" :> 2) @@
    ("DATE" :> 8) @@ ("REFERENCE" :> 8) @@ ("UNDEFINED" :> 1) @@ ("NULL" :> 8)

\* the members weigh.ts reads
UsedMembers ==
    {"BOOLEAN", "NUMBER", "BIGINT", "STRING_CHAR", "DATE", "REFERENCE", "UNDEFINED", "NULL",
     "DEFAULT_OBJECT", "DEFAULT_ARRAY", "DEFAULT_MAP", "DEFAULT_SET", "DEFAULT_FUNCTION",
     "DEFAULT_REGEXP", "DEFAULT_WEAKREF"}

(***************************************************************************)
(* A size is a sum: so many bytes, plus so many occurrences of each member *)
(* that weigh.ts reads and the table does not declare.  Such a member has  *)
(* no value (the access is undefined at run time and a sum that contains   *)
(* it is NaN), so the sum carries it by name instead of inventing a value. *)
(***************************************************************************)
Terms == {"bytes"} \cup (UsedMembers \ DOMAIN eMemorySize)

Bytes(n) == [t \in Terms |-> IF t = "bytes" THEN n ELSE 0]

Plus(a, b) == [t \in Terms |-> a[t] + b[t]]

\* eMemorySize.<name>
Member(name) ==
    IF name \in DOMAIN eMemorySize
    THEN Bytes(eMemorySize[name])
    ELSE [t \in Terms |-> IF t = name THEN 1 ELSE 0]

\* length * eMemorySize.STRING_CHAR
Chars(n) == Bytes(n * eMemorySize["STRING_CHAR"])

(***************************************************************************)
(* Values.  A primitive carries its content; a composite is a reference    *)
(* into the heap, so that aliasing and cycles are by identity.             *)
(***************************************************************************)
Val(t, n, s) == [t |-> t, n |-> n, s |-> s]

Null == Val("null", 0, <<>>)
Undefined == Val("undefined", 0, <<>>)
Boolean(b) == Val("boolean", IF b THEN 1 ELSE 0, <<>>)
Number(n) == Val("number", n, <<>>)
BigInt(n) == Val("bigint", n, <<>>)
String(s) == Val("string", 0, s)
\* Symbol(description); an empty s is a symbol without description
Symbol(s) == Val("symbol", 0, s)
Ref(r) == Val("ref", r, <<>>)

IsRef(v) == v.t = "ref"

Kinds == {"object", "array", "map", "set", "function", "regexp", "buffer"}

\* source text of the functions the caller creates: ()=>1
FunctionSource == <<"(", ")", "=", ">", "1">>
\* the regular expressions the caller creates: /ab/g
RegExpSource == <<"a", "b">>
RegExpFlags == <<"g">>
\* the content of the buffers the caller creates: Buffer.from("hi")
BufferBytes == <<"h", "i">>

\* a composite as the caller creates it, before anything is attached:
\*   elems    array elements, or set members, in order
\*   props    own enumerable string-keyed properties that are no array index, in insertion order
\*   entries  map entries, in insertion order
\*   proto    the function's prototype property (not enumerable), undefined for an arrow function
\*   source, flags   source text of a function, pattern and flags of a regular expression,
\*                   bytes of a buffer
NewObj(kind) ==
    [kind |-> kind, elems |-> <<>>, props |-> <<>>, entries |-> <<>>, proto |-> Undefined,
     source |-> CASE kind = "function" -> FunctionSource
                  [] kind = "regexp" -> RegExpSource
                  [] kind = "buffer" -> BufferBytes
                  [] OTHER -> <<>>,
     flags |-> IF kind = "regexp" THEN RegExpFlags ELSE <<>>]

Refs(h) == {Ref(r) : r \in DOMAIN h}

\* typeof value
TypeOf(h, v) ==
    CASE v.t = "null" -> "object"
      [] v.t = "ref" -> IF h[v.n].kind = "function" THEN "function" ELSE "object"
      [] OTHER -> v.t

\* Object.prototype.toString.call(value).slice(8, -1).toLowerCase()
TypeTag(h, v) ==
    CASE v.t = "ref" -> IF h[v.n].kind = "buffer" THEN "uint8array" ELSE h[v.n].kind
      [] OTHER -> v.t

Concat(ss) == LET RECURSIVE cat(_)
                  cat(i) == IF i > Len(ss) THEN <<>> ELSE ss[i] \o cat(i + 1)
              IN cat(1)

\* String(value): the text of a primitive, the class tag of an object, map or set,
\* the source of a function or regular expression, the decoded bytes of a buffer,
\* and the joined elements of an array (null and undefined elements are empty,
\* an array met again inside its own join is empty)
RECURSIVE ToStringIn(_, _, _)
ToStringIn(h, v, joining) ==
    CASE v.t = "null" -> <<"n", "u", "l", "l">>
      [] v.t = "undefined" -> <<"u", "n", "d", "e", "f", "i", "n", "e", "d">>
      [] v.t = "boolean" -> IF v.n = 1 THEN <<"t", "r", "u", "e">> ELSE <<"f", "a", "l", "s", "e">>
      [] v.t = "number" -> NumberToString(v.n)
      [] v.t = "bigint" -> NumberToString(v.n)
      [] v.t = "string" -> v.s
      [] v.t = "symbol" -> <<"S", "y", "m", "b", "o", "l", "(">> \o v.s \o <<")">>
      [] v.t = "ref" ->
            LET o == h[v.n] IN
            CASE o.kind = "object" ->
                    <<"[", "o", "b", "j", "e", "c", "t", " ", "O", "b", "j", "e", "c", "t", "]">>
              [] o.kind = "map" -> <<"[", "o", "b", "j", "e", "c", "t", " ", "M", "a", "p", "]">>
              [] o.kind = "set" -> <<"[", "o", "b", "j", "e", "c", "t", " ", "S", "e", "t", "]">>
              [] o.kind = "function" -> o.source
              [] o.kind = "regexp" -> <<"/">> \o o.source \o <<"/">> \o o.flags
              [] o.kind = "buffer" -> o.source
              [] o.kind = "array" ->
                    IF v.n \in joining THEN <<>>
                    ELSE Concat([i \in 1..Len(o.elems) |->
                            (IF i > 1 THEN <<",">> ELSE <<>>) \o
                            (IF o.elems[i].t \in {"null", "undefined"} THEN <<>>
                             ELSE ToStringIn(h, o.elems[i], joining \cup {v.n}))])

StringOf(h, v) == ToStringIn(h, v, {})

(***************************************************************************)
(* Strategies.  A built-in strategy is known by its class name; a strategy *)
(* the caller writes (ISizeStrategy) is a predicate on the typeof of the   *)
(* value and a fixed cost.                                                 *)
(***************************************************************************)
BuiltIn(name) == [name |-> name, sup |-> {}, cost |-> 0]
Custom(sup, cost) == [name |-> "custom", sup |-> sup, cost |-> cost]

\* the list the constructor installs when it is given none
DefaultStrategies ==
    << BuiltIn("ArrayStrategy"), BuiltIn("RegExpStrategy"), BuiltIn("WeakRefStrategy"),
       BuiltIn("URLSizeStrategy"), BuiltIn("TypedArraySizeStrategy"),
       BuiltIn("ArrayBufferStrategy"), BuiltIn("DataViewStrategy"),
       BuiltIn("FunctionSizeStrategy"), BuiltIn("DefaultSizeStrategy") >>

KindOf(h, v) == IF IsRef(v) THEN h[v.n].kind ELSE "primitive"

\* URLSizeStrategy.supports: value?.toString?.() is a non-empty string matching /^https?:/
URLSizeStrategy_supports(h, v) ==
    /\ v.t \notin {"null", "undefined"}
    /\ TestHttp(StringOf(h, v))

\* s.supports(value); the model has no WeakRef, ArrayBuffer or DataView values,
\* and a Buffer is a Uint8Array
supports(h, s, v) ==
    CASE s.name = "ArrayStrategy" -> KindOf(h, v) = "array"
      [] s.name = "RegExpStrategy" -> KindOf(h, v) = "regexp"
      [] s.name = "WeakRefStrategy" -> FALSE
      [] s.name = "URLSizeStrategy" -> URLSizeStrategy_supports(h, v)
      [] s.name = "TypedArraySizeStrategy" -> KindOf(h, v) = "buffer"
      [] s.name = "ArrayBufferStrategy" -> FALSE
      [] s.name = "DataViewStrategy" -> FALSE
      [] s.name = "FunctionSizeStrategy" -> TypeOf(h, v) = "function"
      [] s.name = "DefaultSizeStrategy" -> TRUE
      [] s.name = "custom" -> TypeOf(h, v) \in s.sup

\* this.strategies.find((s) => s.supports(value)): the index, 0 when there is none
FindStrategy(h, strats, v) ==
    IF \E i \in DOMAIN strats : supports(h, strats[i], v)
    THEN CHOOSE i \in DOMAIN strats :
            /\ supports(h, strats[i], v)
            /\ \A j \in 1..(i - 1) : ~supports(h, strats[j], v)
    ELSE 0

\* (mutant: push instead of unshift)
addStrategy_push(strats, s) == Append(strats, s)

\* Profiler.addStrategy: unshift
addStrategy(strats, s) == <<s>> \o strats

(***************************************************************************)
(* The visitation set.                                                     *)
(***************************************************************************)
\* (mutant: the membership test is lost)
isVisited_never(h, v, vis) == FALSE

\* Profiler.isVisited
isVisited(h, v, vis) == TypeOf(h, v) = "object" /\ v.t # "null" /\ v.n \in vis

\* Profiler.markVisited: the set afterwards
markVisited(h, v, vis) == IF TypeOf(h, v) = "object" /\ v.t # "null" THEN vis \cup {v.n} ELSE vis

(***************************************************************************)
(* What a strategy walks.  An item is a child handed to computeSize and    *)
(* the key-name cost added just before it.                                 *)
(***************************************************************************)
Item(pre, v) == [pre |-> pre, v |-> v]

\* for (const key in value) if hasOwnProperty(key) [and key is not excluded]:
\*   size += key.length * STRING_CHAR; size += computeSize(value[key])
PropItems(o, excluded) ==
    LET kept == SelectSeq(o.props, LAMBDA p : p.k \notin excluded)
    IN [i \in 1..Len(kept) |-> Item(Chars(Len(kept[i].k)), kept[i].v)]

\* the index keys of an array, which for-in enumerates before the other keys
IndexItems(o) ==
    [i \in 1..Len(o.elems) |-> Item(Chars(Len(NumberToString(i - 1))), o.elems[i])]

\* for (const item of value) size += computeSize(item)
ElementItems(o) == [i \in 1..Len(o.elems) |-> Item(Bytes(0), o.elems[i])]

\* for (const [key, val] of map) size += computeSize(key) + computeSize(val)
EntryItems(o) ==
    [i \in 1..(2 * Len(o.entries)) |->
        IF i % 2 = 1 THEN Item(Bytes(0), o.entries[(i + 1) \div 2].k)
        ELSE Item(Bytes(0), o.entries[i \div 2].v)]

\* (mutant: the second loop skips the index keys)
ArrayStrategy_items_noIndexKeys(o) ==
    ElementItems(o) \o PropItems(o, {<<"l", "e", "n", "g", "t", "h">>})

\* ArrayStrategy.sizeOf: the elements, then every own enumerable key but "length"
ArrayStrategy_items(o) ==
    ElementItems(o) \o IndexItems(o) \o PropItems(o, {<<"l", "e", "n", "g", "t", "h">>})

\* FunctionSizeStrategy.sizeOf: own enumerable properties, then fn.prototype when it is an object
FunctionSizeStrategy_items(h, o) ==
    PropItems(o, {}) \o
    (IF o.proto.t = "ref" /\ TypeOf(h, o.proto) = "object" THEN <<Item(Bytes(0), o.proto)>> ELSE <<>>)

\* RegExpStrategy.sizeOf: own enumerable properties but source, flags and lastIndex
RegExpStrategy_items(o) ==
    PropItems(o, {<<"s", "o", "u", "r", "c", "e">>, <<"f", "l", "a", "g", "s">>,
                  <<"l", "a", "s", "t", "I", "n", "d", "e", "x">>})

(***************************************************************************)
(* computeSize and the strategies' sizeOf.  A result is                    *)
(*   size    the number returned                                           *)
(*   vis     the visitation set afterwards                                 *)
(*   trace   one entry per computeSize call on a composite, in call order: *)
(*           the composite, what the call returned, and the index of the   *)
(*           last call made while it ran (its own index when it made none) *)
(*   thrown  the recursion never ends: the call of computeSize(v) is made  *)
(*           while computeSize(v) is running and the visitation set is     *)
(*           what it was then, so the same calls follow for ever and the   *)
(*           run-time throws RangeError (call stack exhausted)             *)
(***************************************************************************)
Result(size, vis, trace, thrown) == [size |-> size, vis |-> vis, trace |-> trace, thrown |-> thrown]

\* (A nested call is bound as the one member of a set, {f(r) : r \in {call}}, so that
\* it is evaluated once.)
RECURSIVE computeSizeIn(_, _, _, _, _, _)
RECURSIVE SumItems(_, _, _, _, _, _)

\* size += pre; size += profiler.computeSize(v), item after item; acc is the sum so far
SumItems(h, strats, items, i, acc, stack) ==
    IF acc.thrown \/ i > Len(items) THEN acc
    ELSE LET after == CHOOSE x \in
                 {Result(Plus(Plus(acc.size, items[i].pre), r.size), r.vis, r.trace, r.thrown) :
                    r \in {computeSizeIn(h, strats, items[i].v, acc.vis, acc.trace, stack)}} : TRUE
         IN SumItems(h, strats, items, i + 1, after, stack)

Walk(h, strats, base, items, vis, trace, stack) ==
    SumItems(h, strats, items, 1, Result(base, vis, trace, FALSE), stack)

\* DefaultSizeStrategy.sizeOf
DefaultSizeStrategy_sizeOf(h, strats, v, vis, trace, stack) ==
    CASE v.t = "null" -> Result(Member("NULL"), vis, trace, FALSE)
      [] v.t = "undefined" -> Result(Member("UNDEFINED"), vis, trace, FALSE)
      [] v.t = "string" -> Result(Chars(Len(v.s)), vis, trace, FALSE)
      [] v.t = "number" -> Result(Member("NUMBER"), vis, trace, FALSE)
      [] v.t = "boolean" -> Result(Member("BOOLEAN"), vis, trace, FALSE)
      [] v.t = "bigint" -> Result(Member("BIGINT"), vis, trace, FALSE)
      [] v.t = "symbol" -> Result(Chars(Len(v.s)), vis, trace, FALSE)
      [] v.t = "ref" ->
            LET o == h[v.n]
                marked == markVisited(h, v, vis)
            IN
            IF o.kind = "function"
            THEN Result(Plus(Member("DEFAULT_FUNCTION"), Chars(Len(StringOf(h, v)))), vis, trace, FALSE)
            ELSE IF isVisited(h, v, vis)
            THEN Result(Member("REFERENCE"), vis, trace, FALSE)
            ELSE CASE o.kind = "array" -> Walk(h, strats, Bytes(0), ElementItems(o), marked, trace, stack)
                   [] o.kind = "map" ->
                        Walk(h, strats, Member("DEFAULT_MAP"), EntryItems(o), marked, trace, stack)
                   [] o.kind = "set" ->
                        Walk(h, strats, Member("DEFAULT_SET"), ElementItems(o), marked, trace, stack)
                   [] o.kind = "buffer" -> Result(Bytes(Len(o.source)), marked, trace, FALSE)
                   [] o.kind = "regexp" -> Result(Chars(Len(StringOf(h, v))), marked, trace, FALSE)
                   [] o.kind = "object" ->
                        Walk(h, strats, Member("DEFAULT_OBJECT"), PropItems(o, {}), marked, trace, stack)

\* URLSizeStrategy.sizeOf
URLSizeStrategy_sizeOf(h, v, vis, trace) ==
    Result(Plus(Member("DEFAULT_OBJECT"), Chars(Len(StringOf(h, v)))), vis, trace, FALSE)

\* TypedArraySizeStrategy.sizeOf: value.byteLength
TypedArraySizeStrategy_sizeOf(h, v, vis, trace) ==
    Result(Bytes(Len(h[v.n].source)), vis, trace, FALSE)

\* FunctionSizeStrategy.sizeOf
FunctionSizeStrategy_sizeOf(h, strats, v, vis, trace, stack) ==
    Walk(h, strats, Plus(Member("DEFAULT_FUNCTION"), Chars(Len(StringOf(h, v)))),
         FunctionSizeStrategy_items(h, h[v.n]), vis, trace, stack)

\* RegExpStrategy.sizeOf: the walk, then size += NUMBER
RegExpStrategy_sizeOf(h, strats, v, vis, trace, stack) ==
    LET o == h[v.n]
    IN CHOOSE x \in
          {[r EXCEPT !.size = Plus(@, Member("NUMBER"))] :
             r \in {Walk(h, strats,
                         Plus(Member("DEFAULT_REGEXP"),
                              Plus(Chars(Len(o.source)), Chars(Len(o.flags)))),
                         RegExpStrategy_items(o), vis, trace, stack)}} : TRUE

\* ArrayStrategy.sizeOf
ArrayStrategy_sizeOf(h, strats, v, vis, trace, stack) ==
    Walk(h, strats, Member("DEFAULT_ARRAY"), ArrayStrategy_items(h[v.n]), vis, trace, stack)

\* strategy.sizeOf(value, this)
StrategySizeOf(h, strats, s, v, vis, trace, stack) ==
    CASE s.name = "ArrayStrategy" -> ArrayStrategy_sizeOf(h, strats, v, vis, trace, stack)
      [] s.name = "RegExpStrategy" -> RegExpStrategy_sizeOf(h, strats, v, vis, trace, stack)
      [] s.name = "URLSizeStrategy" -> URLSizeStrategy_sizeOf(h, v, vis, trace)
      [] s.name = "TypedArraySizeStrategy" -> TypedArraySizeStrategy_sizeOf(h, v, vis, trace)
      [] s.name = "FunctionSizeStrategy" -> FunctionSizeStrategy_sizeOf(h, strats, v, vis, trace, stack)
      [] s.name = "DefaultSizeStrategy" -> DefaultSizeStrategy_sizeOf(h, strats, v, vis, trace, stack)
      [] s.name = "custom" -> Result(Bytes(s.cost), vis, trace, FALSE)

\* Profiler.computeSize, as a strategy calls it
computeSizeIn(h, strats, v, vis, trace, stack) ==
    LET i == FindStrategy(h, strats, v) IN
    IF i = 0 THEN Result(Bytes(0), vis, trace, FALSE)
    ELSE IF ~IsRef(v) THEN StrategySizeOf(h, strats, strats[i], v, vis, trace, stack)
    ELSE IF <<v.n, vis>> \in stack THEN Result(Bytes(0), vis, trace, TRUE)
    ELSE LET at == Len(trace) + 1
             entered == Append(trace, [ref |-> v.n, cost |-> Bytes(0), last |-> at])
         IN CHOOSE x \in
               {IF r.thrown THEN r
                ELSE [r EXCEPT !.trace[at] = [ref |-> v.n, cost |-> r.size, last |-> Len(r.trace)]] :
                  r \in {StrategySizeOf(h, strats, strats[i], v, vis, entered,
                                        stack \cup {<<v.n, vis>>})}} : TRUE

\* (mutant: computeSize starts from an empty visitation set, as sizeOf does)
computeSize_resets(h, strats, v, vis) == computeSizeIn(h, strats, v, {}, <<>>, {})

\* Profiler.computeSize, called on the instance: the visitation set is the instance's
computeSize(h, strats, v, vis) == computeSizeIn(h, strats, v, vis, <<>>, {})

\* (mutant: the visitation set is not replaced)
sizeOf_keepsVisited(h, strats, v, vis) == computeSize(h, strats, v, vis)

\* Profiler.sizeOf: this.visited = new WeakSet(); return this.computeSize(value)
sizeOf(h, strats, v, vis) == computeSize(h, strats, v, {})

(***************************************************************************)
(* The detailed report.  A node is {type, size, children?}; children maps  *)
(* a label to a node, and an assignment to a label already there replaces  *)
(* the node held under it.                                                 *)
(***************************************************************************)
Leaf(type, size) == [type |-> type, size |-> size, hasChildren |-> FALSE, children |-> <<>>]

\* children[label] = node
Put(children, label, node) ==
    IF \E i \in DOMAIN children : children[i].label = label
    THEN [i \in DOMAIN children |->
            IF children[i].label = label THEN [label |-> label, node |-> node] ELSE children[i]]
    ELSE Append(children, [label |-> label, node |-> node])

Labelled(pre, v, label) == [pre |-> pre, v |-> v, label |-> label]

\* the function branch: own enumerable properties under their keys, then
\* value.prototype under "prototype" when it is an object
DetailedFunctionItems(h, o) ==
    [i \in 1..Len(o.props) |-> Labelled(Chars(Len(o.props[i].k)), o.props[i].v, o.props[i].k)] \o
    (IF o.proto.t = "ref" /\ TypeOf(h, o.proto) = "object"
     THEN <<Labelled(Bytes(0), o.proto, <<"p", "r", "o", "t", "o", "t", "y", "p", "e">>)>>
     ELSE <<>>)

\* value.forEach((item, index) => ...), and the set branch's children[i++]
DetailedElementItems(o) ==
    [i \in 1..Len(o.elems) |-> Labelled(Bytes(0), o.elems[i], NumberToString(i - 1))]

\* the map branch: `key:${String(k)}` and `val:${String(k)}`
DetailedEntryItems(h, o) ==
    [i \in 1..(2 * Len(o.entries)) |->
        IF i % 2 = 1
        THEN LET e == o.entries[(i + 1) \div 2]
             IN Labelled(Bytes(0), e.k, <<"k", "e", "y", ":">> \o StringOf(h, e.k))
        ELSE LET e == o.entries[i \div 2]
             IN Labelled(Bytes(0), e.v, <<"v", "a", "l", ":">> \o StringOf(h, e.k))]

\* the generic branch: own enumerable properties under their keys
DetailedObjectItems(o) ==
    [i \in 1..Len(o.props) |-> Labelled(Chars(Len(o.props[i].k)), o.props[i].v, o.props[i].k)]

Detailed(report, vis, thrown) == [report |-> report, vis |-> vis, thrown |-> thrown]

RECURSIVE computeDetailedIn(_, _, _, _)
RECURSIVE DetailItems(_, _, _, _, _)

\* child = this._computeDetailed(v); size += pre + child.size; children[label] = child
DetailItems(h, items, i, acc, stack) ==
    IF acc.thrown \/ i > Len(items) THEN acc
    ELSE LET after == CHOOSE x \in
                 {Detailed([acc.report EXCEPT
                              !.size = Plus(Plus(@, items[i].pre), r.report.size),
                              !.children = Put(@, items[i].label, r.report)],
                           r.vis, r.thrown) :
                    r \in {computeDetailedIn(h, items[i].v, acc.vis, stack)}} : TRUE
         IN DetailItems(h, items, i + 1, after, stack)

DetailWalk(h, type, base, items, vis, stack) ==
    DetailItems(h, items, 1,
                Detailed([type |-> type, size |-> base, hasChildren |-> TRUE, children |-> <<>>],
                         vis, FALSE),
                stack)

\* Profiler._computeDetailed
computeDetailedIn(h, v, vis, stack) ==
    CASE v.t \in {"null", "undefined"} -> Detailed(Leaf(TypeTag(h, v), Member("UNDEFINED")), vis, FALSE)
      [] v.t = "string" -> Detailed(Leaf("string", Chars(Len(v.s))), vis, FALSE)
      [] v.t = "number" -> Detailed(Leaf("number", Member("NUMBER")), vis, FALSE)
      [] v.t = "boolean" -> Detailed(Leaf("boolean", Member("BOOLEAN")), vis, FALSE)
      [] v.t = "bigint" -> Detailed(Leaf("bigint", Member("BIGINT")), vis, FALSE)
      [] v.t = "symbol" -> Detailed(Leaf("symbol", Chars(Len(v.s))), vis, FALSE)
      [] v.t = "ref" ->
            LET o == h[v.n]
                marked == markVisited(h, v, vis)
                inner == stack \cup {<<v.n, vis>>}
            IN
            IF <<v.n, vis>> \in stack THEN Detailed(Leaf("", Bytes(0)), vis, TRUE)
            ELSE IF isVisited(h, v, vis)
            THEN Detailed(Leaf(IF o.kind = "function" THEN "function" ELSE TypeTag(h, v),
                               Member("REFERENCE")), vis, FALSE)
            ELSE CASE o.kind = "function" ->
                        DetailWalk(h, "function", Chars(Len(StringOf(h, v))),
                                   DetailedFunctionItems(h, o), marked, inner)
                   [] o.kind = "array" ->
                        DetailWalk(h, "array", Bytes(0), DetailedElementItems(o), marked, inner)
                   [] o.kind = "map" ->
                        DetailWalk(h, "map", Bytes(0), DetailedEntryItems(h, o), marked, inner)
                   [] o.kind = "set" ->
                        DetailWalk(h, "set", Bytes(0), DetailedElementItems(o), marked, inner)
                   [] o.kind = "buffer" -> Detailed(Leaf("buffer", Bytes(Len(o.source))), marked, FALSE)
                   [] o.kind = "regexp" ->
                        Detailed(Leaf("regexp", Chars(Len(StringOf(h, v)))), marked, FALSE)
                   [] o.kind = "object" ->
                        DetailWalk(h, "object", Bytes(0), DetailedObjectItems(o), marked, inner)

\* Profiler.computeDetailedSize: this.visited = new WeakSet(); return this._computeDetailed(value)
computeDetailedSize(h, v, vis) == computeDetailedIn(h, v, {}, {})

(***************************************************************************)
(* The caller's side: creating composites and attaching values to them.    *)
(***************************************************************************)
\* property names the caller uses: on plain objects, and on arrays, functions and
\* regular expressions
Keys == {<<"s", "e", "l", "f">>}
ExtraKeys == {<<"a">>}

\* primitives the caller stores inside composites, and those it uses as map keys
EdgePrims == {Number(1)}
KeyPrims == {Number(1), String(<<"1">>)}

\* primitives the caller measures directly, besides the string being typed
FixedPrims ==
    {Null, Undefined, Boolean(TRUE), Number(1), BigInt(1), String(<<"h", "i">>), Symbol(<<"d">>),
     Symbol(<<>>)}

\* detailedSizeOf of a strategy the caller writes: a report of the size its sizeOf returns
Custom_detailedSizeOf(s) == Leaf("custom", Bytes(s.cost))

\* strategies the caller writes
CustomStrategies ==
    {Custom(sup, cost) : sup \in {{"string"}, {"object"}, {"number", "function"}}, cost \in {100, 200}}

EdgesOf(o) == Len(o.props) + Len(o.elems) + Len(o.entries) + (IF o.proto = Undefined THEN 0 ELSE 1)

RECURSIVE EdgeCountUpTo(_, _)
EdgeCountUpTo(h, n) == IF n = 0 THEN 0 ELSE EdgesOf(h[n]) + EdgeCountUpTo(h, n - 1)

EdgeCount(h) == EdgeCountUpTo(h, Len(h))

NoReport == Leaf("", Bytes(0))

\* wasVisited: isVisited(arg) held when the call was made
NoCall == [op |-> "none", arg |-> Undefined, wasVisited |-> FALSE, size |-> Bytes(0), thrown |-> FALSE,
           trace |-> <<>>, report |-> NoReport]

\* obj[key] = v
WithProperty(o, key, v) ==
    IF \E i \in DOMAIN o.props : o.props[i].k = key
    THEN [o EXCEPT !.props = [i \in DOMAIN o.props |->
                                IF o.props[i].k = key THEN [k |-> key, v |-> v] ELSE o.props[i]]]
    ELSE [o EXCEPT !.props = Append(@, [k |-> key, v |-> v])]

\* map.set(k, v)
WithEntry(o, k, v) ==
    IF \E i \in DOMAIN o.entries : o.entries[i].k = k
    THEN [o EXCEPT !.entries = [i \in DOMAIN o.entries |->
                                IF o.entries[i].k = k THEN [k |-> k, v |-> v] ELSE o.entries[i]]]
    ELSE [o EXCEPT !.entries = Append(@, [k |-> k, v |-> v])]

\* the heaps and operands of one attachment: a value the caller already holds,
\* or a composite created for the occasion
GraphSize(h) == Len(h) + EdgeCount(h)

\* the caller builds the graph first and measures afterwards
Building(max) == GraphSize(heap) < max /\ call.op = "none" /\ visited = {}

Operands(h, prims, max) ==
    {[h |-> h, v |-> v] : v \in Refs(h) \cup prims} \cup
    (IF GraphSize(h) + 2 <= max
     THEN {[h |-> Append(h, NewObj(k)), v |-> Ref(Len(h) + 1)] : k \in Kinds}
     ELSE {})

\* the first composite
Create(k) ==
    /\ heap = <<>>
    /\ heap' = <<NewObj(k)>>
    /\ call' = NoCall
    /\ UNCHANGED <<text, strategies, visited>>

SetProperty(r, key, max) ==
    /\ IF heap[r].kind = "object" THEN key \in Keys
       ELSE heap[r].kind \in {"array", "function", "regexp"} /\ key \in ExtraKeys
    /\ Building(max)
    /\ \E x \in Operands(heap, EdgePrims, max) : heap' = [x.h EXCEPT ![r] = WithProperty(@, key, x.v)]
    /\ call' = NoCall
    /\ UNCHANGED <<text, strategies, visited>>

Push(r, max) ==
    /\ heap[r].kind = "array"
    /\ Building(max)
    /\ \E x \in Operands(heap, EdgePrims, max) : heap' = [x.h EXCEPT ![r].elems = Append(@, x.v)]
    /\ call' = NoCall
    /\ UNCHANGED <<text, strategies, visited>>

SetAdd(r, max) ==
    /\ heap[r].kind = "set"
    /\ Building(max)
    /\ \E x \in Operands(heap, EdgePrims, max) :
          /\ \A i \in DOMAIN heap[r].elems : heap[r].elems[i] # x.v
          /\ heap' = [x.h EXCEPT ![r].elems = Append(@, x.v)]
    /\ call' = NoCall
    /\ UNCHANGED <<text, strategies, visited>>

\* map.set(x, 1) for any operand x, and map.set(1, composite)
MapSet(r, max) ==
    /\ heap[r].kind = "map"
    /\ Building(max)
    /\ \/ \E x \in Operands(heap, KeyPrims, max) :
             heap' = [x.h EXCEPT ![r] = WithEntry(@, x.v, Number(1))]
       \/ \E val \in Refs(heap) :
             heap' = [heap EXCEPT ![r] = WithEntry(@, Number(1), val)]
    /\ call' = NoCall
    /\ UNCHANGED <<text, strategies, visited>>

\* fn.prototype = an object
SetPrototype(r, max) ==
    /\ heap[r].kind = "function"
    /\ Building(max)
    /\ \E x \in Operands(heap, EdgePrims, max) :
          /\ IsRef(x.v)
          /\ x.h[x.v.n].kind # "function"
          /\ heap' = [x.h EXCEPT ![r].proto = x.v]
    /\ call' = NoCall
    /\ UNCHANGED <<text, strategies, visited>>

Type(c) ==
    /\ Len(text) < MaxLen
    /\ text' = Append(text, c)
    /\ call' = NoCall
    /\ UNCHANGED <<heap, strategies, visited>>

AddStrategy(s) ==
    /\ Cardinality({i \in DOMAIN strategies : strategies[i].name = "custom"}) < MaxAdded
    /\ strategies' = addStrategy(strategies, s)
    /\ call' = NoCall
    /\ UNCHANGED <<heap, text, visited>>

(***************************************************************************)
(* The calls on the instance.                                              *)
(***************************************************************************)
SizeOf(v) ==
    \E r \in {sizeOf(heap, strategies, v, visited)} :
    /\ visited' = r.vis
    /\ call' = [op |-> "sizeOf", arg |-> v, wasVisited |-> isVisited(heap, v, visited), size |-> r.size,
                thrown |-> r.thrown, trace |-> r.trace, report |-> NoReport]
    /\ UNCHANGED <<heap, text, strategies>>

ComputeSize(v) ==
    \E r \in {computeSize(heap, strategies, v, visited)} :
    /\ visited' = r.vis
    /\ call' = [op |-> "computeSize", arg |-> v, wasVisited |-> isVisited(heap, v, visited), size |-> r.size,
                thrown |-> r.thrown, trace |-> r.trace, report |-> NoReport]
    /\ UNCHANGED <<heap, text, strategies>>

ComputeDetailedSize(v) ==
    \E r \in {computeDetailedSize(heap, v, visited)} :
    /\ visited' = r.vis
    /\ call' = [op |-> "computeDetailedSize", arg |-> v, wasVisited |-> isVisited(heap, v, visited),
                size |-> r.report.size, thrown |-> r.thrown, trace |-> <<>>,
                report |-> IF r.thrown THEN NoReport ELSE r.report]
    /\ UNCHANGED <<heap, text, strategies>>

(***************************************************************************)
(* Spec: a default Profiler and a caller who builds a value graph and      *)
(* measures the composites in it.                                          *)
(***************************************************************************)
Init ==
    /\ heap = <<>>
    /\ text = <<>>
    /\ strategies = DefaultStrategies
    /\ visited = {}
    /\ call = NoCall

Next ==
    \/ \E k \in Kinds : Create(k)
    \/ \E r \in DOMAIN heap, key \in Keys \cup ExtraKeys : SetProperty(r, key, MaxSize)
    \/ \E r \in DOMAIN heap : Push(r, MaxSize)
    \/ \E r \in DOMAIN heap : SetAdd(r, MaxSize)
    \/ \E r \in DOMAIN heap : MapSet(r, MaxSize)
    \/ \E r \in DOMAIN heap : SetPrototype(r, MaxSize)
    \/ \E v \in Refs(heap) : SizeOf(v)
    \/ \E v \in Refs(heap) : ComputeDetailedSize(v)

Spec == Init /\ [][Next]_vars

(***************************************************************************)
(* SpecCalls: the same with a smaller graph, and a caller who also calls   *)
(* computeSize on the instance.                                            *)
(***************************************************************************)
NextCalls ==
    \/ \E k \in Kinds : Create(k)
    \/ \E r \in DOMAIN heap, key \in Keys \cup ExtraKeys : SetProperty(r, key, MaxCallSize)
    \/ \E r \in DOMAIN heap : Push(r, MaxCallSize)
    \/ \E r \in DOMAIN heap : SetAdd(r, MaxCallSize)
    \/ \E r \in DOMAIN heap : MapSet(r, MaxCallSize)
    \/ \E r \in DOMAIN heap : SetPrototype(r, MaxCallSize)
    \/ \E v \in Refs(heap) : SizeOf(v)
    \/ \E v \in Refs(heap) : ComputeSize(v)
    \/ \E v \in Refs(heap) : ComputeDetailedSize(v)

SpecCalls == Init /\ [][NextCalls]_vars

(***************************************************************************)
(* SpecText: a default Profiler and a caller who types a string and        *)
(* measures it.                                                            *)
(***************************************************************************)
NextText ==
    \/ \E c \in Alphabet : Type(c)
    \/ SizeOf(String(text))
    \/ ComputeSize(String(text))
    \/ ComputeDetailedSize(String(text))

SpecText == Init /\ [][NextText]_vars

(***************************************************************************)
(* SpecStrategies: a Profiler constructed with the default list or with an *)
(* empty one, a caller who registers strategies and measures primitives    *)
(* and one composite.                                                      *)
(***************************************************************************)
InitStrategies ==
    /\ heap = <<>>
    /\ text = <<>>
    /\ strategies \in {DefaultStrategies, <<>>}
    /\ visited = {}
    /\ call = NoCall

NextStrategies ==
    \/ \E k \in Kinds : Create(k)
    \/ \E s \in CustomStrategies : AddStrategy(s)
    \/ \E v \in Refs(heap) \cup FixedPrims : SizeOf(v)
    \/ \E v \in Refs(heap) \cup FixedPrims : ComputeSize(v)
    \/ \E v \in Refs(heap) \cup FixedPrims : ComputeDetailedSize(v)

SpecStrategies == InitStrategies /\ [][NextStrategies]_vars

(***************************************************************************)
(* Reading a value graph and a call.                                       *)
(***************************************************************************)
ValuesOf(o) ==
    {o.elems[i] : i \in DOMAIN o.elems} \cup {o.props[i].v : i \in DOMAIN o.props} \cup
    {o.entries[i].k : i \in DOMAIN o.entries} \cup {o.entries[i].v : i \in DOMAIN o.entries} \cup
    {o.proto}

ChildRefs(o) == {v.n : v \in {x \in ValuesOf(o) : IsRef(x)}}

\* the composites reachable from composite r, r included
Reach(h, r) ==
    LET RECURSIVE grow(_)
        grow(S) == LET T == S \cup UNION {ChildRefs(h[x]) : x \in S}
                   IN IF T = S THEN S ELSE grow(T)
    IN grow({r})

\* a call of sizeOf on a composite has been made on a Profiler with the default list
SizedComposite == call.op = "sizeOf" /\ IsRef(call.arg) /\ strategies = DefaultStrategies

\* entry j of the trace is a later visit of a composite the call had entered before
Revisit(trace, j) == \E i \in 1..(j - 1) : trace[i].ref = trace[j].ref

----------------------------------------------------------------------------
(***************************************************************************)
(* C1.  With the default strategy list, a top-level sizeOf(v) terminates   *)
(* and returns, for every finite value graph v, cycles included, whatever  *)
(* kind of composite the cycle passes through.                             *)
(***************************************************************************)
C1_SizeOfTerminates == SizedComposite => ~call.thrown

(***************************************************************************)
(* C2.  Within one sizeOf call, every composite reached more than once is  *)
(* charged exactly REFERENCE on every visit after the first, and is not    *)
(* traversed again.                                                        *)
(***************************************************************************)
C2_RevisitCostsReference ==
    (SizedComposite /\ ~call.thrown) =>
        \A j \in DOMAIN call.trace :
            Revisit(call.trace, j) =>
                /\ call.trace[j].cost = Member("REFERENCE")
                /\ call.trace[j].last = j

(***************************************************************************)
(* C3.  In a graph made only of plain objects, maps and sets, sizeOf       *)
(* returns, every edge that leads to a composite already entered is        *)
(* charged exactly REFERENCE and its target is not expanded again; and for *)
(* a plain object a whose only property k refers to a itself,              *)
(* sizeOf(a) = length(k) * STRING_CHAR + REFERENCE + DEFAULT_OBJECT.       *)
(***************************************************************************)
OnlyObjectsMapsSets(h, r) == \A x \in Reach(h, r) : h[x].kind \in {"object", "map", "set"}

SelfReferent(h, r) ==
    /\ h[r].kind = "object"
    /\ Len(h[r].props) = 1
    /\ h[r].props[1].v = Ref(r)

C4_DetailedTotalIsSizeOf ==
    (call.op = "computeDetailedSize" /\ strategies = DefaultStrategies) =>
        \A plain \in {sizeOf(heap, strategies, call.arg, visited)} :
            /\ call.thrown = plain.thrown
            /\ ~call.thrown => call.report.size = plain.size

(***************************************************************************)
(* C5.  With the default strategy list, sizeOf of a primitive string is    *)
(* its length times STRING_CHAR, whatever its content, strings that begin  *)
(* with "http:" or "https:" included.                                      *)
(***************************************************************************)
C5_StringIsLengthTimesChar ==
    (call.op = "sizeOf" /\ call.arg.t = "string" /\ strategies = DefaultStrategies) =>
        /\ ~call.thrown
        /\ call.size = Chars(Len(call.arg.s))

(***************************************************************************)
(* C6.  With the default strategy list, sizeOf of an empty array, plain    *)
(* object, map or set is the base overhead of its kind (DEFAULT_ARRAY,     *)
(* DEFAULT_OBJECT, DEFAULT_MAP, DEFAULT_SET), and that overhead is a       *)
(* member of the unit table eMemorySize with a non-zero integer value.     *)
(***************************************************************************)
BaseOverhead ==
    [array |-> "DEFAULT_ARRAY", object |-> "DEFAULT_OBJECT", map |-> "DEFAULT_MAP", set |-> "DEFAULT_SET"]

IsEmpty(o) == o.elems = <<>> /\ o.props = <<>> /\ o.entries = <<>> /\ o.proto = Undefined

C6_EmptyIsDeclaredOverhead ==
    (SizedComposite /\ heap[call.arg.n].kind \in DOMAIN BaseOverhead /\ IsEmpty(heap[call.arg.n])) =>
        \A name \in {BaseOverhead[heap[call.arg.n].kind]} :
            /\ ~call.thrown
            /\ call.size = Member(name)
            /\ name \in DOMAIN eMemorySize
            /\ eMemorySize[name] \in Nat \ {0}

(***************************************************************************)
(* C7.  computeSize(v) returns what the first strategy of the current      *)
(* list that supports v returns, and 0 without raising when none supports  *)
(* v; every addStrategy puts its strategy in front of all the strategies   *)
(* registered before it.                                                   *)
(***************************************************************************)
FirstSupporting(h, strats, v, i) ==
    /\ supports(h, strats[i], v)
    /\ \A j \in 1..(i - 1) : ~supports(h, strats[j], v)

C7_FirstSupportingStrategyWins ==
    [][ /\ call'.op = "computeSize" =>
             IF \A i \in DOMAIN strategies : ~supports(heap, strategies[i], call'.arg)
             THEN call'.size = Bytes(0) /\ ~call'.thrown
             ELSE \A i \in DOMAIN strategies :
                     FirstSupporting(heap, strategies, call'.arg, i) =>
                        \A r \in {StrategySizeOf(heap, strategies, strategies[i], call'.arg,
                                                 visited, <<>>, {})} :
                            call'.size = r.size /\ call'.thrown = r.thrown
        /\ strategies' # strategies =>
             /\ Tail(strategies') = strategies
             /\ Head(strategies') \in CustomStrategies
      ]_vars

\* two added strategies and the catch-all support the value; the one added last answered
C7_Witness ==
    /\ call.op = "computeSize" /\ ~call.thrown
    /\ Len(strategies) > 2
    /\ strategies[1].name = "custom" /\ strategies[2].name = "custom"
    /\ strategies[Len(strategies)].name = "DefaultSizeStrategy"
    /\ supports(heap, strategies[1], call.arg) /\ supports(heap, strategies[2], call.arg)
    /\ strategies[1].cost # strategies[2].cost
    /\ call.size = Bytes(strategies[1].cost)

(***************************************************************************)
(* C8.  Whatever calls were made before on the instance, sizeOf(v) returns *)
(* what it returns on a newly constructed Profiler with the same strategy  *)
(* list (whose visitation set is empty).                                   *)
(***************************************************************************)
C8_SizeOfIgnoresHistory ==
    call.op = "sizeOf" =>
        \A fresh \in {sizeOf(heap, strategies, call.arg, {})} :
            /\ call.thrown = fresh.thrown
            /\ call.size = fresh.size

\* the measured object carried a mark of an earlier call, and owns more than a reference
C8_Witness ==
    /\ call.op = "sizeOf" /\ ~call.thrown
    /\ call.wasVisited
    /\ call.size # Member("REFERENCE")

(***************************************************************************)
(* C9.  In every report of computeDetailedSize, the size of each node that *)
(* has children is the node's own overhead (the cost of its key names and, *)
(* for a function, of its source text) plus the sum of the sizes of the    *)
(* reports held in its children mapping; maps whose keys are not strings   *)
(* included.                                                               *)
(***************************************************************************)
SumSizes(sizes) ==
    LET RECURSIVE sum(_)
        sum(i) == IF i > Len(sizes) THEN Bytes(0) ELSE Plus(sizes[i], sum(i + 1))
    IN sum(1)

\* what a node's children mapping is filled from: label, key-name cost and value
ChildrenOf(h, v) ==
    CASE h[v.n].kind = "function" -> DetailedFunctionItems(h, h[v.n])
      [] h[v.n].kind \in {"array", "set"} -> DetailedElementItems(h[v.n])
      [] h[v.n].kind = "map" -> DetailedEntryItems(h, h[v.n])
      [] h[v.n].kind = "object" -> DetailedObjectItems(h[v.n])
      [] OTHER -> <<>>

OwnOverhead(h, v) ==
    Plus(IF h[v.n].kind = "function" THEN Chars(Len(StringOf(h, v))) ELSE Bytes(0),
         SumSizes([i \in DOMAIN ChildrenOf(h, v) |-> ChildrenOf(h, v)[i].pre]))

RECURSIVE NodeIsOverheadPlusChildren(_, _, _)
NodeIsOverheadPlusChildren(h, v, node) ==
    node.hasChildren =>
        /\ node.size = Plus(OwnOverhead(h, v),
                            SumSizes([i \in DOMAIN node.children |-> node.children[i].node.size]))
        /\ \A i \in DOMAIN node.children :
              \E j \in DOMAIN ChildrenOf(h, v) :
                 /\ ChildrenOf(h, v)[j].label = node.children[i].label
                 /\ NodeIsOverheadPlusChildren(h, ChildrenOf(h, v)[j].v, node.children[i].node)

C9_NodeIsOverheadPlusChildren ==
    (call.op = "computeDetailedSize" /\ ~call.thrown) =>
        NodeIsOverheadPlusChildren(heap, call.arg, call.report)

(***************************************************************************)
(* C10.  As claimed: for every array, sizeOf = DEFAULT_ARRAY + the sum of  *)
(* computeSize(element) over its elements + the sum of (key length *       *)
(* STRING_CHAR + computeSize(value)) over its own enumerable properties    *)
(* that are neither indices nor length: each element is charged once and   *)
(* index keys cost nothing.                                                *)
(* As amended: the second sum runs over every own enumerable key other     *)
(* than length, the index keys included, so each element is passed to      *)
(* computeSize a second time, after all the elements, and each index key   *)
(* adds the length of its decimal text times STRING_CHAR.                  *)
(***************************************************************************)
\* the calls of computeSize made directly by the call that is first in the trace
DirectCalls(trace) ==
    LET RECURSIVE from(_)
        from(j) == IF j > Len(trace) THEN <<>> ELSE <<j>> \o from(trace[j].last + 1)
    IN from(2)

\* the measured array cost DEFAULT_ARRAY + keyCost + the sum of what computeSize
\* returned for the values of charged, called on them one after the other
ArraySizeIs(charged, keyCost) ==
    LET direct == DirectCalls(call.trace)
        composites == SelectSeq(charged, IsRef)
        primitives == SelectSeq(charged, LAMBDA v : ~IsRef(v))
    IN /\ Len(direct) = Len(composites)
       /\ \A i \in DOMAIN direct : call.trace[direct[i]].ref = composites[i].n
       /\ call.size =
             Plus(Plus(Member("DEFAULT_ARRAY"), keyCost),
                  Plus(SumSizes([i \in DOMAIN primitives |->
                                    computeSize(heap, strategies, primitives[i], {}).size]),
                       SumSizes([i \in DOMAIN direct |-> call.trace[direct[i]].cost])))

SizedArray == SizedComposite /\ heap[call.arg.n].kind = "array" /\ ~call.thrown

PropertyValues(o) == [i \in DOMAIN o.props |-> o.props[i].v]
PropertyKeyCost(o) == SumSizes([i \in DOMAIN o.props |-> Chars(Len(o.props[i].k))])
IndexKeyCost(o) == SumSizes([i \in DOMAIN o.elems |-> Chars(Len(NumberToString(i - 1)))])

CutKinds == {"object", "array", "map", "set", "function"}

\* the composites met once v has been reported after those of seen: a composite of
\* seen is not entered again, or leads only to composites already met
RECURSIVE SeenAfter(_, _, _)
RECURSIVE SeenAfterItems(_, _, _, _)
SeenAfter(h, v, seen) ==
    IF ~IsRef(v) \/ v.n \in seen THEN seen
    ELSE SeenAfterItems(h, ChildrenOf(h, v), Len(ChildrenOf(h, v)), seen \cup {v.n})

\* ... once the first k of items have been reported
SeenAfterItems(h, items, k, seen) ==
    IF k = 0 THEN seen ELSE SeenAfter(h, items[k].v, SeenAfterItems(h, items, k - 1, seen))

\* node reports v, met after the composites of seen; a child is looked at under its
\* label unless a later child of the same node took the label over
RECURSIVE ReportCutsRevisits(_, _, _, _)
ReportCutsRevisits(h, v, node, seen) ==
    IF ~IsRef(v) THEN TRUE
    ELSE IF v.n \in seen /\ h[v.n].kind \in CutKinds
    THEN ~node.hasChildren /\ node.size = Member("REFERENCE")
    ELSE node.hasChildren =>
            \A items \in {ChildrenOf(h, v)} :
               \A i \in DOMAIN items :
                  (\A j \in (i + 1)..Len(items) : items[j].label # items[i].label) =>
                     \E c \in DOMAIN node.children :
                        /\ node.children[c].label = items[i].label
                        /\ ReportCutsRevisits(h, items[i].v, node.children[c].node,
                              SeenAfterItems(h, items, i - 1, seen \cup {v.n}))

C11_DetailedReportIsFiniteTree ==
    call.op = "computeDetailedSize" =>
        /\ ~call.thrown
        /\ ReportCutsRevisits(heap, call.arg, call.report, {})

(***************************************************************************)
(* C12.  computeSize never empties the visitation set: the marks that were *)
(* on the instance when it is called are still there afterwards, every     *)
(* call it makes on a plain object, map or set that carried a mark returns *)
(* REFERENCE without going into it, and a direct computeSize(o) on a       *)
(* marked plain object o returns exactly REFERENCE.                        *)
(***************************************************************************)
C12_ComputeSizeKeepsMarks ==
    [][ call'.op = "computeSize" =>
          /\ visited \subseteq visited'
          /\ ~call'.thrown =>
                \A j \in DOMAIN call'.trace :
                   (/\ call'.trace[j].ref \in visited
                    /\ heap[call'.trace[j].ref].kind \in {"object", "map", "set"}) =>
                       /\ call'.trace[j].cost = Member("REFERENCE")
                       /\ call'.trace[j].last = j
          /\ (/\ IsRef(call'.arg)
              /\ heap[call'.arg.n].kind = "object"
              /\ call'.arg.n \in visited) =>
                 /\ ~call'.thrown
                 /\ call'.size = Member("REFERENCE")
      ]_vars

\* a direct computeSize on a marked object that owns more than a reference
C12_Witness ==
    /\ call.op = "computeSize" /\ ~call.thrown
    /\ call.wasVisited
    /\ heap[call.arg.n].kind = "object"
    /\ heap[call.arg.n].props # <<>>
    /\ call.size = Member("REFERENCE")
    /\ call.arg.n \in visited

(***************************************************************************)
(* C13.  When a detailed report is asked for a value, the first strategy   *)
(* of the list that supports the value builds the node with its            *)
(* detailedSizeOf when it defines one: a strategy the caller registered    *)
(* (with addStrategy or through the constructor) and that supports the     *)
(* value ahead of all others decides what computeDetailedSize returns, as  *)
(* it decides what sizeOf returns.                                         *)
(***************************************************************************)
C13_DetailedReportAsksStrategies ==
    call.op = "computeDetailedSize" =>
        \A i \in DOMAIN strategies :
            (FirstSupporting(heap, strategies, call.arg, i) /\ strategies[i].name = "custom") =>
                /\ ~call.thrown
                /\ call.report = Custom_detailedSizeOf(strategies[i])

====
